---- MODULE Spec2Model ----
(***************************************************************************)
(* Model of the MATCH_RECOGNIZE prefilter rewrite:                         *)
(*   helper/expand_pattern.py  - expansion of a row pattern AST into       *)
(*                               special patterns                          *)
(*   rewrite.py                - condition synthesis and range builders    *)
(*                                                                         *)
(* A pattern AST node of the source is either a str or a list of nodes.    *)
(* Both are encoded as a record [s, k]: a str token t is [s |-> t,         *)
(* k |-> <<>>], a list is [s |-> "[]", k |-> <<children>>].                *)
(***************************************************************************)
EXTENDS Integers, Sequences, FiniteSets, TLC

(* ---------------------------------------------------------------------- *)
(* AST encoding                                                           *)
(* ---------------------------------------------------------------------- *)
S(tok) == [s |-> tok, k |-> <<>>]
L(items) == [s |-> "[]", k |-> items]

is_str(x) == x.s # "[]"
is_list(x) == x.s = "[]"

\* str.isdigit() and int() on the digit tokens of the model's alphabet
IntOf == ("0" :> 0) @@ ("1" :> 1) @@ ("2" :> 2) @@ ("3" :> 3) @@ ("4" :> 4) @@ ("5" :> 5)
isdigit(tok) == tok \in DOMAIN IntOf

\* str.upper() on the tokens of the model's alphabet that have lower case
upper(tok) ==
    CASE tok = "permute" -> "PERMUTE"
      [] tok = "and" -> "AND"
      [] tok = "price" -> "PRICE"
      [] tok = "cost" -> "COST"
      [] tok = "ts" -> "TS"
      [] OTHER -> tok

\* [t for t in lst if t != ',']
strip_commas(lst) == SelectSeq(lst, LAMBDA t : t # S(","))

\* lst[a:b] of Python for 0 <= a, with b counted from the front (1-based SubSeq)
Slice(lst, from, to) == IF to < from THEN <<>> ELSE SubSeq(lst, from, to)

\* x in lst
Contains(lst, x) == \E i \in 1..Len(lst) : lst[i] = x

\* lst.index(x), 1-based, for x in lst
IndexOf(lst, x) == CHOOSE i \in 1..Len(lst) : lst[i] = x /\ \A j \in 1..(i-1) : lst[j] # x

\* seq * n  (list repetition)
RECURSIVE Repeat(_, _)
Repeat(seq, n) == IF n <= 0 THEN <<>> ELSE seq \o Repeat(seq, n - 1)

(* ---------------------------------------------------------------------- *)
(* _parse_range_token: (lo, hi), hi possibly None (hiset = FALSE)         *)
(* ---------------------------------------------------------------------- *)
DigitAt(lst) == Len(lst) > 0 /\ is_str(lst[1]) /\ isdigit(lst[1].s)

parse_range_token(op) ==
    LET inner == Slice(op.k, 2, Len(op.k) - 1)
    IN  IF Contains(inner, S(","))
        THEN LET idx   == IndexOf(inner, S(","))
                 left  == Slice(inner, 1, idx - 1)
                 right == Slice(inner, idx + 1, Len(inner))
             IN  [lo    |-> IF DigitAt(left) THEN IntOf[left[1].s] ELSE 0,
                  hiset |-> DigitAt(right),
                  hi    |-> IF DigitAt(right) THEN IntOf[right[1].s] ELSE 0]
        ELSE IF DigitAt(inner)
             THEN [lo |-> IntOf[inner[1].s], hiset |-> TRUE, hi |-> IntOf[inner[1].s]]
             ELSE [lo |-> 0, hiset |-> TRUE, hi |-> 0]

\* has_quantifier(node) for a two-element list node
has_quantifier(n) ==
    LET op == n[2]
    IN  IF is_str(op) THEN op.s \in {"*", "+", "?"}
        ELSE Contains(op.k, S("{"))

(* ---------------------------------------------------------------------- *)
(* expand, branch by branch; the operands are the expansions already      *)
(* computed for the sub-nodes.                                            *)
(* ---------------------------------------------------------------------- *)
\* dedupe keeping order (seen-set loop)
RECURSIVE dedupe(_)
dedupe(seqs) ==
    IF seqs = <<>> THEN <<>>
    ELSE LET front == SubSeq(seqs, 1, Len(seqs) - 1)
             last  == seqs[Len(seqs)]
             d     == dedupe(front)
         IN  IF Contains(front, last) THEN d ELSE Append(d, last)

expand_str(tok) ==
    IF tok \in {"|", "?"} THEN << <<>> >>
    ELSE IF tok \in {"^", "$"} THEN << <<>> >>
    ELSE << <<tok>> >>

expand_star(primary) == << <<>> >> \o primary

expand_plus(primary) == primary

\* variant: p? that forgets the zero-repetition alternative
expand_optional_without_empty(primary) == primary

expand_optional(primary) == << <<>> >> \o primary

\* variant: the range repeated up to its upper bound instead of its lower bound
expand_range_upper(op, primary) ==
    LET rng == parse_range_token(op)
    IN  IF rng.lo = 0 /\ (~rng.hiset \/ rng.hi > rng.lo)
        THEN << <<>> >> \o primary
        ELSE IF primary # <<>> THEN << Repeat(primary[1], IF rng.hiset THEN rng.hi ELSE rng.lo) >>
             ELSE << <<>> >>

expand_range(op, primary) ==
    LET rng == parse_range_token(op)
    IN  IF rng.lo = 0 /\ (~rng.hiset \/ rng.hi > rng.lo)
        THEN << <<>> >> \o primary
        ELSE IF primary # <<>> THEN << Repeat(primary[1], rng.lo) >> ELSE << <<>> >>

expand_quantified(op, primary) ==
    IF op = S("*") THEN expand_star(primary)
    ELSE IF op = S("+") THEN expand_plus(primary)
    ELSE IF op = S("?") THEN expand_optional(primary)
    ELSE IF is_list(op) THEN expand_range(op, primary)
    ELSE primary

expand_alternation(left, right) == left \o right

\* variant: the two loops of the cartesian product nested the other way round
CrossAppend_part_outer(res, part) ==
    [n \in 1..(Len(res) * Len(part)) |->
        res[((n - 1) % Len(res)) + 1] \o part[((n - 1) \div Len(res)) + 1]]

\* for prefix in res: for seq in part: new.append(prefix + seq)
RECURSIVE CrossAppend(_, _)
CrossAppend(res, part) ==
    IF res = <<>> THEN <<>>
    ELSE [j \in 1..Len(part) |-> res[1] \o part[j]] \o CrossAppend(Tail(res), part)

RECURSIVE CrossAll(_, _)
CrossAll(res, parts) ==
    IF parts = <<>> THEN res
    ELSE CrossAll(CrossAppend(res, parts[1]), Tail(parts))

expand_concat(parts) == dedupe(CrossAll(<< <<>> >>, parts))

\* itertools.product(*expanded_args): tuples of one sequence per argument,
\* rightmost argument varying fastest
RECURSIVE product(_)
product(args) ==
    IF args = <<>> THEN << <<>> >>
    ELSE LET rest == product(Tail(args))
             RECURSIVE heads(_)
             heads(i) == IF i > Len(args[1]) THEN <<>>
                         ELSE [j \in 1..Len(rest) |-> <<args[1][i]>> \o rest[j]] \o heads(i + 1)
         IN  heads(1)

\* variant: only the rotations of idxs instead of all its orderings
permutations_rotations(idxs) ==
    IF idxs = <<>> THEN << <<>> >>
    ELSE [r \in 1..Len(idxs) |-> [i \in 1..Len(idxs) |-> idxs[((i + r - 2) % Len(idxs)) + 1]]]

\* itertools.permutations(idxs): lexicographic in the positions of idxs
RECURSIVE permutations(_)
permutations(idxs) ==
    IF idxs = <<>> THEN << <<>> >>
    ELSE LET RECURSIVE from(_)
             from(i) ==
                 IF i > Len(idxs) THEN <<>>
                 ELSE LET others == SubSeq(idxs, 1, i - 1) \o SubSeq(idxs, i + 1, Len(idxs))
                          sub    == permutations(others)
                      IN  [j \in 1..Len(sub) |-> <<idxs[i]>> \o sub[j]] \o from(i + 1)
         IN  from(1)

\* seq = []; for idx in perm: seq.extend(choice[idx])
RECURSIVE Flatten(_, _)
Flatten(choice, perm) ==
    IF perm = <<>> THEN <<>> ELSE choice[perm[1]] \o Flatten(choice, Tail(perm))

PermsOf(choice) ==
    LET ps == permutations([i \in 1..Len(choice) |-> i])
    IN  [j \in 1..Len(ps) |-> Flatten(choice, ps[j])]

RECURSIVE AllPerms(_)
AllPerms(choices) ==
    IF choices = <<>> THEN <<>> ELSE PermsOf(choices[1]) \o AllPerms(Tail(choices))

expand_permute(expanded_args) == dedupe(AllPerms(product(expanded_args)))

\* the list node after comma and bracket stripping
strip_brackets(n) ==
    IF n[1] = S("(") /\ n[Len(n)] = S(")") THEN Slice(n, 2, Len(n) - 1) ELSE n

\* which branch of expand a stripped list node takes
shape(n) ==
    IF Len(n) = 2 /\ has_quantifier(n) THEN "quantified"
    ELSE IF Len(n) >= 4 /\ is_str(n[1]) /\ upper(n[1].s) = "PERMUTE" THEN "permute"
    ELSE IF Len(n) = 3 /\ n[2] = S("|") THEN "alternation"
    ELSE IF Len(n) = 2 /\ n[1] = S("(") /\ n[2] = S(")") THEN "empty"
    ELSE IF Len(n) = 3 /\ n[1] = S("{-") /\ n[3] = S("-}") THEN "excluded"
    ELSE "concatenation"

\* the sub-nodes that branch expands recursively
children(n) ==
    CASE shape(n) = "quantified"  -> <<n[1]>>
      [] shape(n) = "permute"     -> Slice(n, 3, Len(n) - 1)
      [] shape(n) = "alternation" -> <<n[1], n[3]>>
      [] shape(n) = "empty"       -> <<>>
      [] shape(n) = "excluded"    -> <<>>
      [] OTHER                    -> n

\* expand raises IndexError at node[0] when a list node is empty once its
\* commas are stripped; the exception propagates through every recursive call
RECURSIVE Raises(_)
Raises(node) ==
    /\ is_list(node)
    /\ LET stripped == strip_commas(node.k)
       IN  \/ stripped = <<>>
           \/ LET n == strip_brackets(stripped)
                  c == children(n)
              IN  \E i \in 1..Len(c) : Raises(c[i])

\* the value expand returns when it does not raise (<<>> stands in where it raises)
RECURSIVE expand(_)
expand(node) ==
    IF is_str(node) THEN expand_str(node.s)
    ELSE IF strip_commas(node.k) = <<>> THEN <<>>
    ELSE LET n  == strip_brackets(strip_commas(node.k))
             c  == children(n)
             ex == [i \in 1..Len(c) |-> expand(c[i])]
         IN  CASE shape(n) = "quantified"  -> expand_quantified(n[2], ex[1])
               [] shape(n) = "permute"     -> expand_permute(ex)
               [] shape(n) = "alternation" -> expand_alternation(ex[1], ex[2])
               [] shape(n) = "empty"       -> << <<>> >>
               [] shape(n) = "excluded"    -> << <<>> >>
               [] OTHER                    -> expand_concat(ex)

\* one call of expand: the exception it raises, or the list it returns
Outcome(node) ==
    IF Raises(node) THEN [exc |-> "IndexError", val |-> <<>>]
    ELSE [exc |-> "none", val |-> expand(node)]

(* ---------------------------------------------------------------------- *)
(* rewrite.py. SQL text is a sequence of lexemes: words (identifiers,     *)
(* keywords, digit strings), ".", " ", quotes and operators, so that      *)
(* "B.ts - A.ts" is <<"B", ".", "ts", " ", "-", " ", "A", ".", "ts">>.    *)
(* An Optional value is [some |-> BOOLEAN, v |-> value].                  *)
(* ---------------------------------------------------------------------- *)
None == [some |-> FALSE, v |-> <<>>]
Some(x) == [some |-> TRUE, v |-> x]

\* truthiness of an Optional[str]
Truthy(opt) == opt.some /\ opt.v # <<>>

NumberLexemes == {"0", "1", "2", "3", "4", "5", "7", "10", "30", "05", "60"}
PunctLexemes == {".", " ", "-", "+", "<=", ">", "<", "=", "(", ")", ",", "'"}

\* \d+ and \w+ on one lexeme
IsNumber(lx) == lx \in NumberLexemes
IsWord(lx) == lx \notin PunctLexemes

\* comparison under re.IGNORECASE on the lexemes of the model's alphabet
fold(lx) ==
    CASE lx = "interval" -> "INTERVAL"
      [] lx = "a" -> "A"
      [] lx = "b" -> "B"
      [] lx = "c" -> "C"
      [] OTHER -> upper(lx)
SameIgnoringCase(x, y) == fold(x) = fold(y)

\* f"{sym}.{order_by}"
Attr(sym, col) == <<sym, ".", col>>

\* position after \s* read from position i
RECURSIVE SkipSpaces(_, _)
SkipSpaces(cond, i) ==
    IF i <= Len(cond) /\ cond[i] = " " THEN SkipSpaces(cond, i + 1) ELSE i

At(cond, i, lx) == i <= Len(cond) /\ SameIgnoringCase(cond[i], lx)

\* ['"]? at position i, if the alternative allows a quote: the position after it
OptQuote(cond, i, quoted) == IF quoted /\ At(cond, i, "'") THEN i + 1 ELSE i

\* -? at position a: the position after it
OptSign(cond, a) == IF At(cond, a, "-") THEN a + 1 ELSE a

\* \d+(?:\.\d+)? at position b: the position after it, 0 if no match
Digits(cond, b) ==
    IF b <= Len(cond) /\ IsNumber(cond[b])
    THEN IF At(cond, b + 1, ".") /\ b + 2 <= Len(cond) /\ IsNumber(cond[b + 2])
         THEN b + 3 ELSE b + 1
    ELSE 0

\* the closing ['"]? after digits that ended at c
CloseQuote(cond, c, quoted) == IF c = 0 THEN 0 ELSE OptQuote(cond, c, quoted)

\* ['"]?-?\d+(?:\.\d+)?['"]? read from position i: the position after it, 0 if
\* no match
NumberEnd(cond, i, quoted) ==
    CloseQuote(cond, Digits(cond, OptSign(cond, OptQuote(cond, i, quoted))), quoted)

\* \s+\w+\s*$ after the number of the INTERVAL alternative that ended at n
\* (0: no number): the position after the unit, 0 if no match
IntervalUnitEnd(cond, n) ==
    IF n # 0 /\ SkipSpaces(cond, n) > n /\ SkipSpaces(cond, n) <= Len(cond)
       /\ IsWord(cond[SkipSpaces(cond, n)])
       /\ SkipSpaces(cond, SkipSpaces(cond, n) + 1) = Len(cond) + 1
    THEN SkipSpaces(cond, n) + 1 ELSE 0

\* \s*\w*\s*$ after the number of the plain alternative that ended at n
PlainUnitEnd(cond, n) ==
    IF n = 0 THEN 0
    ELSE IF SkipSpaces(cond, n) <= Len(cond) /\ IsWord(cond[SkipSpaces(cond, n)])
            /\ SkipSpaces(cond, SkipSpaces(cond, n) + 1) = Len(cond) + 1
         THEN SkipSpaces(cond, n) + 1
    ELSE IF SkipSpaces(cond, n) = Len(cond) + 1 THEN SkipSpaces(cond, n)
    ELSE 0

\* INTERVAL\s+ and the number after it, read from position i
IntervalNumberEnd(cond, i) ==
    IF At(cond, i, "INTERVAL") /\ SkipSpaces(cond, i + 1) > i + 1
    THEN NumberEnd(cond, SkipSpaces(cond, i + 1), TRUE) ELSE 0

\* the first alternative that matches
FirstAlternative(e1, e2) == IF e1 # 0 THEN e1 ELSE e2

\* the group 'window' read from position i up to the end of cond:
\*   INTERVAL\s+['"]?-?\d+(?:\.\d+)?['"]?\s+\w+   |   -?\d+(?:\.\d+)?\s*\w*
\* followed by \s*$ ; the position after the group, 0 if no match
WindowEnd(cond, i) ==
    FirstAlternative(IntervalUnitEnd(cond, IntervalNumberEnd(cond, i)),
                     PlainUnitEnd(cond, NumberEnd(cond, i, FALSE)))

\* build_window_condition_regex(first_sym, last_sym, order_by).match(cond):
\* the captured window, None if cond does not match
\*   ^\s*(last)\.order_by\s*-\s*(first)\.order_by\s*<=\s*(?P<window>...)\s*$
window_match(first_sym, last_sym, order_by, cond) ==
    LET i0 == SkipSpaces(cond, 1)
        i1 == SkipSpaces(cond, i0 + 3)
        i2 == SkipSpaces(cond, i1 + 1)
        i3 == SkipSpaces(cond, i2 + 3)
        i4 == SkipSpaces(cond, i3 + 1)
        e  == WindowEnd(cond, i4)
    IN  IF /\ At(cond, i0, last_sym) /\ At(cond, i0 + 1, ".") /\ At(cond, i0 + 2, order_by)
           /\ At(cond, i1, "-")
           /\ At(cond, i2, first_sym) /\ At(cond, i2 + 1, ".") /\ At(cond, i2 + 2, order_by)
           /\ At(cond, i3, "<=")
           /\ e # 0
        THEN Some(SubSeq(cond, i4, e - 1))
        ELSE None

\* pattern.index(sym), 1-based; raises ValueError if sym is not in pattern
InPattern(pattern, sym) == \E i \in 1..Len(pattern) : pattern[i] = sym
index(pattern, sym) == CHOOSE i \in 1..Len(pattern) : pattern[i] = sym /\ \A j \in 1..(i - 1) : pattern[j] # sym

\* len(pattern) == len(set(pattern))
no_duplicates(pattern) == Len(pattern) = Cardinality({pattern[i] : i \in 1..Len(pattern)})

\* sorted(symbol_seq, key=pattern.index): stable, smallest key first
RECURSIVE sorted(_, _)
sorted(symbol_seq, pattern) ==
    IF symbol_seq = <<>> THEN <<>>
    ELSE LET i == CHOOSE i \in 1..Len(symbol_seq) :
                    /\ \A j \in 1..Len(symbol_seq) :
                          index(pattern, symbol_seq[i]) <= index(pattern, symbol_seq[j])
                    /\ \A j \in 1..(i - 1) :
                          index(pattern, symbol_seq[j]) # index(pattern, symbol_seq[i])
         IN  <<symbol_seq[i]>>
             \o sorted(SubSeq(symbol_seq, 1, i - 1) \o SubSeq(symbol_seq, i + 1, Len(symbol_seq)), pattern)

\* the anchor the synthesizer works on
normalize(pattern, symbol_seq) ==
    IF no_duplicates(pattern) THEN sorted(symbol_seq, pattern) ELSE symbol_seq

\* dict(define): one entry per symbol, in order of first appearance, the last
\* cond_list given for a symbol
define_dict(define) ==
    LET keys == dedupe([i \in 1..Len(define) |-> define[i][1]])
        lastOf(sym) == CHOOSE i \in 1..Len(define) :
                          define[i][1] = sym /\ \A j \in (i + 1)..Len(define) : define[j][1] # sym
    IN  [n \in 1..Len(keys) |-> <<keys[n], define[lastOf(keys[n])][2]>>]

\* all cond strings of define_dict in the order the filter loop visits them
RECURSIVE all_conds(_)
all_conds(dict) ==
    IF dict = <<>> THEN <<>> ELSE dict[1][2] \o all_conds(Tail(dict))

\* the window the filter loop leaves in `window`: the capture of the last
\* cond that matches the window regex
RECURSIVE extract_window(_, _, _, _)
extract_window(first_sym, last_sym, order_by, conds) ==
    IF conds = <<>> THEN None
    ELSE LET m == window_match(first_sym, last_sym, order_by, conds[Len(conds)])
         IN  IF m.some THEN m
             ELSE extract_window(first_sym, last_sym, order_by, SubSeq(conds, 1, Len(conds) - 1))

\* the cond the filter loop leaves in `window_cond`: the last cond that
\* matches the window regex
RECURSIVE extract_window_cond(_, _, _, _)
extract_window_cond(first_sym, last_sym, order_by, conds) ==
    IF conds = <<>> THEN None
    ELSE IF window_match(first_sym, last_sym, order_by, conds[Len(conds)]).some
    THEN Some(conds[Len(conds)])
    ELSE extract_window_cond(first_sym, last_sym, order_by, SubSeq(conds, 1, Len(conds) - 1))

\* variant: each pair compared the wrong way round
sequential_conds_reversed(symbol_seq, order_by) ==
    [i \in 1..(Len(symbol_seq) - 1) |->
        Attr(symbol_seq[i + 1], order_by) \o <<" ", "<=", " ">> \o Attr(symbol_seq[i], order_by)]

\* f"{sym1}.{order_by} <= {sym2}.{order_by}" for each consecutive pair
sequential_conds(symbol_seq, order_by) ==
    [i \in 1..(Len(symbol_seq) - 1) |->
        Attr(symbol_seq[i], order_by) \o <<" ", "<=", " ">> \o Attr(symbol_seq[i + 1], order_by)]

\* the start of the whitespace-separated part of cond that holds position i
RECURSIVE PartStart(_, _)
PartStart(cond, i) ==
    IF i = 1 \/ cond[i - 1] = " " THEN i ELSE PartStart(cond, i - 1)

\* part.split(".")[0] for the part whose first "." is at position i
PartPrefix(cond, i, start) == SubSeq(cond, start, i - 1)

\* position i holds the first "." of its part
IsFirstDot(cond, i, start) ==
    cond[i] = "." /\ \A j \in start..(i - 1) : cond[j] # "."

\* uses_only_allowed: every part of cond.split() with a "." in it starts,
\* before its first ".", with a symbol of allowed
uses_only_allowed(cond, allowed) ==
    \A i \in 1..Len(cond) :
        IsFirstDot(cond, i, PartStart(cond, i)) =>
            /\ Len(PartPrefix(cond, i, PartStart(cond, i))) = 1
            /\ PartPrefix(cond, i, PartStart(cond, i))[1] \in allowed

\* win_func_pattern.search(cond)
win_func_names == {"PREV", "NEXT", "FIRST", "LAST", "LAG", "LEAD", "FIRST_VALUE", "LAST_VALUE"}
win_func_search(cond) == \E i \in 1..Len(cond) : cond[i] \in win_func_names

sql_keywords == {"AND", "OR", "NOT", "NULL", "IS", "IN", "LIKE", "BETWEEN",
                 "CASE", "WHEN", "THEN", "ELSE", "END", "TRUE", "FALSE"}

\* \b before the lexeme at position i
WordStart(cond, i) == i = 1 \/ ~IsWord(cond[i - 1])

\* re.search(rf"\b{symbol}\.", cond)
symbol_present(cond, symbol) ==
    \E i \in 1..(Len(cond) - 1) : cond[i] = symbol /\ cond[i + 1] = "." /\ WordStart(cond, i)

\* add_prefix on the identifier match at position i: the replacement text
add_prefix(cond, i, symbol) ==
    IF ~(IsWord(cond[i]) /\ ~IsNumber(cond[i]) /\ WordStart(cond, i)) THEN <<cond[i]>>
    ELSE IF upper(cond[i]) \in sql_keywords THEN <<cond[i]>>
    ELSE IF i < Len(cond) /\ cond[i + 1] = "(" THEN <<cond[i]>>
    ELSE <<symbol, ".", cond[i]>>

\* re.sub over the identifiers of cond from position i on
RECURSIVE sub_identifiers(_, _, _)
sub_identifiers(cond, i, symbol) ==
    IF i > Len(cond) THEN <<>>
    ELSE add_prefix(cond, i, symbol) \o sub_identifiers(cond, i + 1, symbol)

\* add_symbol_prefix
add_symbol_prefix(cond, symbol) ==
    IF symbol_present(cond, symbol) THEN cond ELSE sub_identifiers(cond, 1, symbol)

\* new_cond_list of one (sym, cond_list) entry: the conds that are neither a
\* window condition nor dropped by the two filters, prefixed with sym
RECURSIVE new_cond_list(_, _, _, _, _, _)
new_cond_list(sym, cond_list, first_sym, last_sym, order_by, allowed) ==
    IF cond_list = <<>> THEN <<>>
    ELSE (IF \/ window_match(first_sym, last_sym, order_by, cond_list[1]).some
             \/ ~uses_only_allowed(cond_list[1], allowed)
             \/ win_func_search(cond_list[1])
          THEN <<>>
          ELSE <<add_symbol_prefix(cond_list[1], sym)>>)
         \o new_cond_list(sym, Tail(cond_list), first_sym, last_sym, order_by, allowed)

\* the filter loop over define_dict.items(): conds += new_cond_list for the
\* symbols of symbol_seq
RECURSIVE filter_conds(_, _, _, _, _)
filter_conds(dict, first_sym, last_sym, order_by, symbol_seq) ==
    IF dict = <<>> THEN <<>>
    ELSE (IF Contains(symbol_seq, dict[1][1])
          THEN new_cond_list(dict[1][1], dict[1][2], first_sym, last_sym, order_by,
                             {symbol_seq[i] : i \in 1..Len(symbol_seq)})
          ELSE <<>>)
         \o filter_conds(Tail(dict), first_sym, last_sym, order_by, symbol_seq)

\* str.replace(f"{old}.", f"{new}.") on a cond whose symbols are whole lexemes
replace(cond, old, new) ==
    [i \in 1..Len(cond) |->
        IF cond[i] = old /\ i < Len(cond) /\ cond[i + 1] = "." THEN new ELSE cond[i]]

\* variant: the two ends of symbol_seq taken the wrong way round
propagate_crossed(window_cond, pattern, symbol_seq) ==
    replace(replace(window_cond, pattern[1], symbol_seq[Len(symbol_seq)]),
            pattern[Len(pattern)], symbol_seq[1])

\* the window condition "propagated backward" to the ends of symbol_seq
propagate(window_cond, pattern, symbol_seq) ==
    replace(replace(window_cond, pattern[1], symbol_seq[1]),
            pattern[Len(pattern)], symbol_seq[Len(symbol_seq)])

\* the tail of conds: the propagated window condition, if one was found
window_conds(window_cond, pattern, symbol_seq) ==
    IF window_cond.some THEN <<propagate(window_cond.v, pattern, symbol_seq)>> ELSE <<>>

\* the conds of map_symbols_to_conds on the sorted symbol_seq
synthesized_conds(pattern, dict, order_by, symbol_seq, rewrite) ==
    (IF rewrite = "basic" THEN sequential_conds(symbol_seq, order_by) ELSE <<>>)
    \o filter_conds(dict, pattern[1], pattern[Len(pattern)], order_by, symbol_seq)
    \o window_conds(extract_window_cond(pattern[1], pattern[Len(pattern)], order_by, all_conds(dict)),
                    pattern, symbol_seq)

\* map_symbols_to_conds: the exception it raises, or the conds and the window
\* it returns
map_symbols_to_conds(pattern, define, order_by, symbol_seq, rewrite) ==
    IF no_duplicates(pattern) /\ \E i \in 1..Len(symbol_seq) : ~InPattern(pattern, symbol_seq[i])
    THEN [exc |-> "ValueError: not in list", window |-> None, conds |-> <<>>]
    ELSE IF pattern = <<>>
    THEN [exc |-> "IndexError", window |-> None, conds |-> <<>>]
    ELSE LET window == extract_window(pattern[1], pattern[Len(pattern)], order_by,
                                      all_conds(define_dict(define)))
         IN  IF window.some /\ symbol_seq = <<>>
             THEN [exc |-> "IndexError", window |-> None, conds |-> <<>>]
             ELSE [exc |-> "none", window |-> window,
                   conds |-> synthesized_conds(pattern, define_dict(define), order_by,
                                               normalize(pattern, symbol_seq), rewrite)]

\* variant: the last case taken without asking for a window
get_basic_time_range_unguarded(symbol_seq, pattern, order_by, window) ==
    LET first == symbol_seq[1]
        last  == symbol_seq[Len(symbol_seq)]
    IN  IF first = pattern[1] /\ last = pattern[Len(pattern)]
        THEN <<Some(Attr(first, order_by)), Some(Attr(last, order_by))>>
        ELSE IF Truthy(window) /\ last = pattern[Len(pattern)]
        THEN <<Some(Attr(last, order_by) \o <<" ", "-", " ">> \o window.v),
               Some(Attr(last, order_by))>>
        ELSE IF Truthy(window) /\ first = pattern[1]
        THEN <<Some(Attr(first, order_by)),
               Some(Attr(first, order_by) \o <<" ", "+", " ">> \o window.v)>>
        ELSE <<Some(Attr(last, order_by) \o <<" ", "-", " ">> \o window.v),
               Some(Attr(first, order_by) \o <<" ", "+", " ">> \o window.v)>>

\* variant: the two-sided case built from the wrong ends of the anchor
get_basic_time_range_swapped(symbol_seq, pattern, order_by, window) ==
    LET first == symbol_seq[1]
        last  == symbol_seq[Len(symbol_seq)]
    IN  IF first = pattern[1] /\ last = pattern[Len(pattern)]
        THEN <<Some(Attr(first, order_by)), Some(Attr(last, order_by))>>
        ELSE IF Truthy(window) /\ last = pattern[Len(pattern)]
        THEN <<Some(Attr(last, order_by) \o <<" ", "-", " ">> \o window.v),
               Some(Attr(last, order_by))>>
        ELSE IF Truthy(window) /\ first = pattern[1]
        THEN <<Some(Attr(first, order_by)),
               Some(Attr(first, order_by) \o <<" ", "+", " ">> \o window.v)>>
        ELSE IF Truthy(window)
        THEN <<Some(Attr(first, order_by) \o <<" ", "-", " ">> \o window.v),
               Some(Attr(last, order_by) \o <<" ", "+", " ">> \o window.v)>>
        ELSE <<None, None>>

\* get_basic_time_range: the pair (t_s, t_e)
get_basic_time_range(symbol_seq, pattern, order_by, window) ==
    LET first == symbol_seq[1]
        last  == symbol_seq[Len(symbol_seq)]
    IN  IF first = pattern[1] /\ last = pattern[Len(pattern)]
        THEN <<Some(Attr(first, order_by)), Some(Attr(last, order_by))>>
        ELSE IF Truthy(window) /\ last = pattern[Len(pattern)]
        THEN <<Some(Attr(last, order_by) \o <<" ", "-", " ">> \o window.v),
               Some(Attr(last, order_by))>>
        ELSE IF Truthy(window) /\ first = pattern[1]
        THEN <<Some(Attr(first, order_by)),
               Some(Attr(first, order_by) \o <<" ", "+", " ">> \o window.v)>>
        ELSE IF Truthy(window)
        THEN <<Some(Attr(last, order_by) \o <<" ", "-", " ">> \o window.v),
               Some(Attr(first, order_by) \o <<" ", "+", " ">> \o window.v)>>
        ELSE <<None, None>>

\* build_basic_ranges_sub: raises when an endpoint is missing, else emits the
\* SELECT of the range
build_basic_ranges_sub(pattern, symbol_seq, order_by, window) ==
    LET t == IF symbol_seq = <<>> THEN <<None, None>>
             ELSE get_basic_time_range(symbol_seq, pattern, order_by, window)
    IN  IF symbol_seq = <<>>
        THEN [exc |-> "IndexError", t_s |-> None, t_e |-> None, range |-> FALSE]
        ELSE IF ~t[1].some \/ ~t[2].some
        THEN [exc |-> "ValueError: Cannot compute time range", t_s |-> t[1], t_e |-> t[2], range |-> FALSE]
        ELSE [exc |-> "none", t_s |-> t[1], t_e |-> t[2], range |-> TRUE]

\* one iteration of the loop of rewrite_basic over (special_pattern, subseq)
rewrite_basic(special_pattern, define, order_by, subseq) ==
    LET m == map_symbols_to_conds(special_pattern, define, order_by, subseq, "basic")
    IN  IF m.exc # "none"
        THEN [exc |-> m.exc, synthesized |-> FALSE, window |-> None, conds |-> <<>>,
              t_s |-> None, t_e |-> None, range |-> FALSE]
        ELSE LET b == build_basic_ranges_sub(special_pattern, subseq, order_by, m.window)
             IN  [exc |-> b.exc, synthesized |-> TRUE, window |-> m.window, conds |-> m.conds,
                  t_s |-> b.t_s, t_e |-> b.t_e, range |-> b.range]

\* variant: the first-only case tested before the last-only case, with the
\* last-only bounds
get_bucket_time_range_confused(symbol_seq, pattern) ==
    LET first == symbol_seq[1]
        last  == symbol_seq[Len(symbol_seq)]
    IN  IF first = pattern[1] /\ last = pattern[Len(pattern)]
        THEN <<Attr(first, "bk"), Attr(last, "bk")>>
        ELSE IF first = pattern[1]
        THEN <<Attr(last, "bk") \o <<" ", "-", " ", "1">>, Attr(last, "bk")>>
        ELSE IF last = pattern[Len(pattern)]
        THEN <<Attr(first, "bk"), Attr(first, "bk") \o <<" ", "+", " ", "1">>>>
        ELSE <<Attr(last, "bk") \o <<" ", "-", " ", "1">>,
               Attr(first, "bk") \o <<" ", "+", " ", "1">>>>

\* get_bucket_time_range: the pair (bk_s, bk_e)
get_bucket_time_range(symbol_seq, pattern) ==
    LET first == symbol_seq[1]
        last  == symbol_seq[Len(symbol_seq)]
    IN  IF first = pattern[1] /\ last = pattern[Len(pattern)]
        THEN <<Attr(first, "bk"), Attr(last, "bk")>>
        ELSE IF last = pattern[Len(pattern)]
        THEN <<Attr(last, "bk") \o <<" ", "-", " ", "1">>, Attr(last, "bk")>>
        ELSE IF first = pattern[1]
        THEN <<Attr(first, "bk"), Attr(first, "bk") \o <<" ", "+", " ", "1">>>>
        ELSE <<Attr(last, "bk") \o <<" ", "-", " ", "1">>,
               Attr(first, "bk") \o <<" ", "+", " ", "1">>>>

\* list(flatten(pattern)) of a pattern AST
RECURSIVE flatten(_)
flatten(n) ==
    IF is_str(n) THEN <<n.s>>
    ELSE IF n.k = <<>> THEN <<>>
    ELSE flatten(n.k[1]) \o flatten(L(Tail(n.k)))

\* "".join(pattern_literals).isalpha() on the tokens of the model's alphabet
isalpha(literals) ==
    /\ literals # <<>>
    /\ \A i \in 1..Len(literals) :
          literals[i] \notin {"(", ")", "*", "+", "?", "|", "{", "}", ",", "{-", "-}", "^", "$"}
          /\ ~isdigit(literals[i])

\* rewrite_bucketized on a pattern AST
rewrite_bucketized(ast, define, order_by, symbol_seq) ==
    LET pattern_literals == flatten(ast)
        failed(exc, syn, w, conds) == [exc |-> exc, synthesized |-> syn, window |-> w,
                                       conds |-> conds,
                                       bk_s |-> None, bk_e |-> None, range |-> FALSE]
    IN  IF ~isalpha(pattern_literals)
        THEN failed("UnboundLocalError", FALSE, None, <<>>)
        ELSE LET m == map_symbols_to_conds(pattern_literals, define, order_by, symbol_seq, "bucket")
             IN  IF m.exc # "none" THEN failed(m.exc, FALSE, None, <<>>)
                 ELSE IF ~Truthy(m.window)
                 THEN failed("ValueError: missing Pattern Window Condition", TRUE, m.window, m.conds)
                 ELSE LET bk == get_bucket_time_range(symbol_seq, pattern_literals)
                      IN  [exc |-> "none", synthesized |-> TRUE, window |-> m.window,
                           conds |-> m.conds,
                           bk_s |-> Some(bk[1]), bk_e |-> Some(bk[2]), range |-> TRUE]

(* ---------------------------------------------------------------------- *)
(* Bounds and input alphabets                                             *)
(* ---------------------------------------------------------------------- *)
MaxSteps == 2
MaxLo == 3
MaxArgs == 3
MaxPattern == 3
MaxAnchor == 2

Symbols == {"A", "B", "C", "D", "E", "F"}

Quantified(p, q) == L(<<p, S(q)>>)
Grouped(p) == L(<<S("("), p, S(")")>>)
Concatenation(l, r) == L(<<l, r>>)
PermuteCall(args) ==
    L(<<S("PERMUTE"), S("(")>>
      \o [i \in 1..(2 * Len(args) - 1) |-> IF i % 2 = 1 THEN args[(i + 1) \div 2] ELSE S(",")]
      \o <<S(")")>>)

\* operands joined to the pattern under construction
Operands == {S("A"), S("F"), Quantified(S("B"), "+"), Quantified(S("D"), "*")}

\* patterns construction starts from: the pattern variables and pieces of the
\* pattern catalogue:  A*   (A* B+)   PERMUTE(E, F)
Seeds ==
    {S(a) : a \in Symbols}
    \cup {Quantified(S("A"), "*"),
          Grouped(Concatenation(Quantified(S("A"), "*"), Quantified(S("B"), "+"))),
          PermuteCall(<<S("E"), S("F")>>)}

\* the digit token of a count
DigitTok == [n \in 0..5 |-> CHOOSE t \in DOMAIN IntOf : IntOf[t] = n]

\* range quantifier tokens as the parser emits them:
\*   lohi {lo,hi}    lo {lo,}    hi {,hi}    n {lo}
RangeForms == {"lohi", "lo", "hi", "n"}
HiChoices == {0, 2, 5}

RangeTok(form, lo, hi) ==
    CASE form = "lohi" -> L(<<S("{"), S(DigitTok[lo]), S(","), S(DigitTok[hi]), S("}")>>)
      [] form = "lo"   -> L(<<S("{"), S(DigitTok[lo]), S(","), S("}")>>)
      [] form = "hi"   -> L(<<S("{"), S(","), S(DigitTok[hi]), S("}")>>)
      [] OTHER         -> L(<<S("{"), S(DigitTok[lo]), S("}")>>)

(* ---------------------------------------------------------------------- *)
(* State: the pattern AST under construction, the result of expand on it, *)
(* the construct applied last and the expansions of its operands          *)
(* ---------------------------------------------------------------------- *)
\* rw: the inputs of the rewrite of one special pattern (the DEFINE store and
\* the caller's anchor sequence) and the outcome of each rewrite strategy
VARIABLES node, res, last, parts, steps, rw

vars == <<node, res, last, parts, steps, rw>>

OrderBy == "ts"

PendingBasic == [exc |-> "pending", synthesized |-> FALSE, window |-> None, conds |-> <<>>,
                 t_s |-> None, t_e |-> None, range |-> FALSE]
PendingBucket == [exc |-> "pending", synthesized |-> FALSE, window |-> None, conds |-> <<>>,
                  bk_s |-> None, bk_e |-> None, range |-> FALSE]
RwInput(define, symbol_seq) ==
    [define |-> define, symbol_seq |-> symbol_seq, basic |-> PendingBasic, bucket |-> PendingBucket]

Op(kind) == [kind |-> kind, form |-> "", lo |-> 0, hi |-> 0]

Init ==
    /\ node \in Seeds
    /\ res = Outcome(node)
    /\ last = Op("seed")
    /\ parts = <<>>
    /\ steps = 0
    /\ rw = RwInput(<<>>, <<>>)

\* node becomes n and is expanded; operandExps are the expansions of the
\* operands n was built from
Build(n, op, operandExps) ==
    /\ steps < MaxSteps
    /\ node' = n
    /\ res' = Outcome(n)
    /\ last' = op
    /\ parts' = operandExps
    /\ steps' = steps + 1
    /\ UNCHANGED rw

\* p*  p+  p?
Quantify(q) == Build(Quantified(node, q), Op(q), <<res.val>>)

\* p{lo,hi}  p{lo,}  p{,hi}  p{lo}
QuantifyRange(form, lo, hi) ==
    Build(L(<<node, RangeTok(form, lo, hi)>>),
          [kind |-> "range", form |-> form,
           lo |-> IF form = "hi" THEN 0 ELSE lo,
           hi |-> IF form = "n" THEN lo ELSE IF form = "lo" THEN 0 ELSE hi], <<res.val>>)

\* ( p )
Group == Build(Grouped(node), Op("group"), <<res.val>>)

\* {- p -}
Exclude == Build(L(<<S("{-"), node, S("-}")>>), Op("excluded"), <<res.val>>)

\* p o   and   o p
ConcatRight(o) == Build(Concatenation(node, o), Op("concat"), <<res.val, expand(o)>>)
ConcatLeft(o) == Build(Concatenation(o, node), Op("concat"), <<expand(o), res.val>>)

\* p | o
Alternate(o) == Build(L(<<node, S("|"), o>>), Op("alternation"), <<res.val, expand(o)>>)

\* PERMUTE(p)
PermuteWrap == Build(PermuteCall(<<node>>), Op("permute"), <<res.val>>)

\* PERMUTE(x1, ..., xk) -> PERMUTE(x1, ..., xk, o)
IsPermuteCall(n) ==
    is_list(n) /\ Len(n.k) >= 4 /\ n.k[1] = S("PERMUTE") /\ n.k[2] = S("(") /\ n.k[Len(n.k)] = S(")")
PermuteArgs(n) == strip_commas(SubSeq(n.k, 3, Len(n.k) - 1))

PermuteAdd(o) ==
    /\ IsPermuteCall(node)
    /\ Len(PermuteArgs(node)) < MaxArgs
    /\ LET args == Append(PermuteArgs(node), o)
       IN  Build(PermuteCall(args), Op("permute"), [i \in 1..Len(args) |-> expand(args[i])])

\* a special pattern read back as a plain concatenation of its symbols
AsConcatenation(sp) == L([j \in 1..Len(sp) |-> S(sp[j])])

Reexpand(i) ==
    /\ res.exc = "none"
    /\ i \in 1..Len(res.val)
    /\ Build(AsConcatenation(res.val[i]), Op("reexpand"), << <<res.val[i]>> >>)

Next ==
    \/ \E q \in {"*", "+", "?"} : Quantify(q)
    \/ Group
    \/ \E o \in Operands : Alternate(o)
    \/ \E f \in {"lohi", "lo"}, lo \in {0, 3} : QuantifyRange(f, lo, 5)
    \/ Exclude
    \/ \E o \in Operands : ConcatRight(o)
    \/ \E o \in Operands : ConcatLeft(o)
    \/ PermuteWrap
    \/ \E o \in Operands : PermuteAdd(o)
    \/ \E i \in 1..Len(res.val) : Reexpand(i)

Spec == Init /\ [][Next]_vars

\* operator tokens the parser does not attach to an operand: the reluctant
\* quantifiers, and the operator and anchor tokens left as bare strings
ReluctantOps == {"*?", "+?", "??"}
StrayTokens == {"|", "?", "^", "$", "*", "+"}

\* p*?  p+?  p??  as the two-element node [p, op]
QuantifyReluctant(q) == Build(Quantified(node, q), Op("reluctant"), <<res.val>>)

\* a bare token in front of the pattern:  ^ p   and the like
StrayBefore(t) == Build(L(<<S(t), node>>), Op("stray"), <<res.val>>)

\* a bare token inside a flat token list:  p ? o   and the like
StrayBetween(t, o) == Build(L(<<node, S(t), o>>), Op("stray"), <<res.val, expand(o)>>)

\* the end anchor:  p $
AnchorEnd == Build(L(<<node, S("$")>>), Op("stray"), <<res.val>>)

NextTokens ==
    \/ \E q \in ReluctantOps : QuantifyReluctant(q)
    \/ \E t \in StrayTokens : StrayBefore(t)
    \/ \E t \in StrayTokens \ {"|"} : StrayBetween(t, S("F"))
    \/ AnchorEnd
    \/ \E o \in Operands : ConcatRight(o)

SpecTokens == Init /\ [][NextTokens]_vars

\* the range quantifier in all its token forms, over operands with one or
\* several expansions
NextRange ==
    \/ \E q \in {"*", "+"} : Quantify(q)
    \/ \E o \in {S("F"), Quantified(S("D"), "*")} : Alternate(o)
    \/ \E f \in RangeForms, lo \in 0..MaxLo, hi \in HiChoices : QuantifyRange(f, lo, hi)

SpecRange == Init /\ [][NextRange]_vars

(* ---------------------------------------------------------------------- *)
(* The rewrite of one pattern: expand, then both rewrite strategies on    *)
(* the special pattern with a caller-chosen anchor sequence               *)
(* ---------------------------------------------------------------------- *)
RwSymbols == {"A", "B", "C"}

SeqsUpTo(n) == UNION {[1..m -> RwSymbols] : m \in 0..n}

\* the pattern AST of a plain concatenation of pattern variables, the last one
\* quantified with + when plus; '()' for the empty pattern
PlainPattern(syms, plus) ==
    IF syms = <<>> THEN L(<<S("("), S(")")>>)
    ELSE L([i \in 1..Len(syms) |->
              IF plus /\ i = Len(syms) THEN Quantified(S(syms[i]), "+") ELSE S(syms[i])])

\* DEFINE stores: (symbol, AND-split conditions) pairs
CondPrice == <<"price", " ", ">", " ", "10">>
CondPriceBA == <<"B", ".", "price", " ", ">", " ", "A", ".", "price">>
\* B.ts - A.ts <= INTERVAL '7' DAY
WindowBA == <<"B", ".", "ts", " ", "-", " ", "A", ".", "ts", " ", "<=", " ",
              "INTERVAL", " ", "'", "7", "'", " ", "DAY">>
\* C.ts - A.ts <= 30
WindowCA == <<"C", ".", "ts", " ", "-", " ", "A", ".", "ts", " ", "<=", " ", "30">>
\* A.ts - A.ts <= 30 MINUTE
WindowAA == <<"A", ".", "ts", " ", "-", " ", "A", ".", "ts", " ", "<=", " ", "30", " ", "MINUTE">>

\* B.ts - A.ts <= 60
WindowBA60 == <<"B", ".", "ts", " ", "-", " ", "A", ".", "ts", " ", "<=", " ", "60">>
\* A.price > cost
CondMixed == <<"A", ".", "price", " ", ">", " ", "cost">>
\* A.price > 10
CondOther == <<"A", ".", "price", " ", ">", " ", "10">>
\* B.price <= A.price + 0.05
CondDecimal == <<"B", ".", "price", " ", "<=", " ", "A", ".", "price", " ", "+", " ", "0", ".", "05">>
\* price > PREV(price)
CondNav == <<"price", " ", ">", " ", "PREV", "(", "price", ")">>
\* cost IS NOT NULL
CondNull == <<"cost", " ", "IS", " ", "NOT", " ", "NULL">>

DefineStores ==
    { << <<"A", <<CondPrice>>>>, <<"B", <<CondPriceBA>>>> >>,
      << <<"A", <<CondPrice>>>>, <<"B", <<CondPriceBA, WindowBA>>>> >>,
      << <<"A", <<CondPrice>>>>, <<"C", <<WindowCA>>>> >>,
      << <<"A", <<WindowAA, CondPrice>>>> >>,
      << <<"B", <<CondPriceBA>>>>, <<"A", <<CondPrice>>>> >>,
      << <<"A", <<CondMixed>>>>, <<"B", <<CondOther, CondDecimal>>>> >>,
      << <<"A", <<CondNav, CondNull>>>>, <<"B", <<WindowBA, WindowBA60>>>> >> }

InitRewrite ==
    /\ \E syms \in SeqsUpTo(MaxPattern), plus \in BOOLEAN : node = PlainPattern(syms, plus)
    /\ res = Outcome(node)
    /\ last = Op("seed")
    /\ parts = <<>>
    /\ steps = 0
    /\ \E define \in DefineStores, symbol_seq \in SeqsUpTo(MaxAnchor) :
          rw = RwInput(define, symbol_seq)

\* rewrite_basic, for the special pattern of the expansion
RewriteBasic ==
    /\ rw.basic.exc = "pending"
    /\ res.exc = "none" /\ Len(res.val) = 1
    /\ rw' = [rw EXCEPT !.basic = rewrite_basic(res.val[1], rw.define, OrderBy, rw.symbol_seq)]
    /\ UNCHANGED <<node, res, last, parts, steps>>

\* rewrite_bucketized, on the pattern AST
RewriteBucketized ==
    /\ rw.bucket.exc = "pending"
    /\ rw' = [rw EXCEPT !.bucket = rewrite_bucketized(node, rw.define, OrderBy, rw.symbol_seq)]
    /\ UNCHANGED <<node, res, last, parts, steps>>

NextRewrite == RewriteBasic \/ RewriteBucketized

SpecRewrite == InitRewrite /\ [][NextRewrite]_vars

(* ---------------------------------------------------------------------- *)
(* The continuous prefilter on the rows of one match: the rows carry      *)
(* integer order keys, row j of the match is the row of pattern position  *)
(* j. The ranges CTE joins one row per alias of the anchor and keeps the  *)
(* combinations that satisfy the ordering conditions; the prefilter keeps *)
(* the rows whose key lies in one of the ranges.                          *)
(* ---------------------------------------------------------------------- *)
MaxKey == 2

\* a is a subsequence of p
RECURSIVE IsSubsequence(_, _)
IsSubsequence(a, p) ==
    IF a = <<>> THEN TRUE
    ELSE IF p = <<>> THEN FALSE
    ELSE IF a[1] = p[1] THEN IsSubsequence(Tail(a), Tail(p))
    ELSE IsSubsequence(a, Tail(p))

\* the rows an alias can stand for: FROM <dataset> AS <sym>, for every symbol
\* of the anchor, restricted to the rows of the match that carry the symbol
Bindings(pattern, symbol_seq) ==
    {b \in [{symbol_seq[i] : i \in 1..Len(symbol_seq)} -> 1..Len(pattern)] :
        \A x \in DOMAIN b : pattern[b[x]] = x}

\* the value of '<sym>.<o>', '<sym>.<o> - <n>' or '<sym>.<o> + <n>'
Value(e, b, keys) ==
    IF Len(e) = 3 THEN keys[b[e[1]]]
    ELSE IF e[5] = "-" THEN keys[b[e[1]]] - IntOf[e[7]]
    ELSE keys[b[e[1]]] + IntOf[e[7]]

\* the truth of '<s1>.<o> <= <s2>.<o>'
Holds(c, b, keys) == keys[b[c[1]]] <= keys[b[c[7]]]

\* the rows of the ranges CTE: SELECT t_s, t_e FROM ... WHERE conds
Ranges(pattern, symbol_seq, keys, t, conds) ==
    {[t_s |-> Value(t[1].v, b, keys), t_e |-> Value(t[2].v, b, keys)] :
        b \in {b \in Bindings(pattern, symbol_seq) :
                  \A i \in 1..Len(conds) : Holds(conds[i], b, keys)}}

SoundInput(symbol_seq, keys, window) ==
    [symbol_seq |-> symbol_seq, keys |-> keys, window |-> window,
     stage |-> "input", ranges |-> {}, kept |-> {}]

InitSound ==
    /\ \E syms \in SeqsUpTo(MaxPattern) \ {<<>>} : node = PlainPattern(syms, FALSE)
    /\ res = Outcome(node)
    /\ last = Op("seed")
    /\ parts = <<>>
    /\ steps = 0
    /\ \E symbol_seq \in SeqsUpTo(MaxAnchor) \ {<<>>},
          keys \in [1..Len(node.k) -> 0..MaxKey],
          window \in {None} \cup {Some(<<DigitTok[w]>>) : w \in 0..MaxKey} :
          /\ IsSubsequence(symbol_seq, [i \in 1..Len(node.k) |-> node.k[i].s])
          /\ \A i \in 1..(Len(keys) - 1) : keys[i] <= keys[i + 1]
          /\ window.some => keys[Len(keys)] - keys[1] <= IntOf[window.v[1]]
          /\ rw = SoundInput(symbol_seq, keys, window)

\* build_basic_ranges_sub on the conditions of the synthesizer, evaluated on
\* the rows of the match
RangesSub ==
    /\ rw.stage = "input"
    /\ LET t == get_basic_time_range(rw.symbol_seq, res.val[1], OrderBy, rw.window)
           conds == sequential_conds(normalize(res.val[1], rw.symbol_seq), OrderBy)
       IN  IF ~t[1].some \/ ~t[2].some
           THEN rw' = [rw EXCEPT !.stage = "ValueError: Cannot compute time range"]
           ELSE rw' = [rw EXCEPT !.stage = "ranges",
                                 !.ranges = Ranges(res.val[1], rw.symbol_seq, rw.keys, t, conds)]
    /\ UNCHANGED <<node, res, last, parts, steps>>

\* build_basic_prefilter: WHERE <o> BETWEEN r.t_s AND r.t_e
Prefilter ==
    /\ rw.stage = "ranges"
    /\ rw' = [rw EXCEPT !.stage = "filtered",
                        !.kept = {j \in 1..Len(rw.keys) :
                                     \E r \in rw.ranges : r.t_s <= rw.keys[j] /\ rw.keys[j] <= r.t_e}]
    /\ UNCHANGED <<node, res, last, parts, steps>>

NextSound == RangesSub \/ Prefilter

SpecSound == InitSound /\ [][NextSound]_vars

(* ---------------------------------------------------------------------- *)
(* Properties of expand                                                   *)
(* ---------------------------------------------------------------------- *)
Returned == res.exc = "none"

ToSet(seqs) == {seqs[i] : i \in 1..Len(seqs)}
NoDup(seqs) == \A i, j \in 1..Len(seqs) : i # j => seqs[i] # seqs[j]
Count(seq, x) == Cardinality({i \in 1..Len(seq) : seq[i] = x})
FirstIndex(seqs, x) == CHOOSE i \in 1..Len(seqs) : seqs[i] = x /\ \A j \in 1..(i - 1) : seqs[j] # x

\* seqs with the later duplicates removed is exactly out
IsFirstOccurrences(out, seqs) ==
    /\ NoDup(out)
    /\ ToSet(out) = ToSet(seqs)
    /\ \A a, b \in 1..Len(out) : a < b => FirstIndex(seqs, out[a]) < FirstIndex(seqs, out[b])

\* n copies of seq, one after the other
Copies(seq, n) == [i \in 1..(n * Len(seq)) |-> seq[((i - 1) % Len(seq)) + 1]]

RECURSIVE Factorial(_)
Factorial(n) == IF n <= 1 THEN 1 ELSE n * Factorial(n - 1)

\* the pattern contains a pattern variable outside an excluded subpattern
RECURSIVE HasSymbol(_)
HasSymbol(n) ==
    IF is_str(n) THEN n.s \in Symbols
    ELSE /\ ~(Len(n.k) = 3 /\ n.k[1] = S("{-") /\ n.k[3] = S("-}"))
         /\ \E i \in 1..Len(n.k) : HasSymbol(n.k[i])

\* C1: the list returned by expand contains no two equal symbol sequences,
\* for every pattern AST (top-level alternation and top-level quantifiers over
\* an operand whose expansion contains the empty sequence included).
C1_NoDuplicates == Returned => NoDup(res.val)

\* C2: expand applied to a special pattern s of an expansion, read as a plain
\* concatenation of its symbols, returns without error exactly [s]; the empty
\* sequence included.
C2_ExpandIdempotent ==
    last.kind = "reexpand" => res = [exc |-> "none", val |-> parts[1]]

\* C3: every special pattern returned by expand has length >= 1 whenever the
\* pattern contains at least one symbol outside an excluded subpattern.
C3_NonEmptySpecialPatterns ==
    (Returned /\ HasSymbol(node)) => \A i \in 1..Len(res.val) : Len(res.val[i]) >= 1

\* C4: range quantifier policy. For p{lo,hi}: if lo = 0 and (hi is unset or
\* hi > 0) the result is the empty sequence followed by expand(p); in every
\* other case it is the single sequence of lo copies of the first element of
\* expand(p), whatever hi and the other expansions of p are. C{3,5} yields
\* exactly [[C,C,C]].
C4_RangePolicy ==
    /\ (last.kind = "range" /\ Returned) =>
          IF last.lo = 0 /\ (last.form = "lo" \/ last.hi > 0)
          THEN res.val = << <<>> >> \o parts[1]
          ELSE res.val = << Copies(parts[1][1], last.lo) >>
    /\ node = L(<<S("C"), RangeTok("lohi", 3, 5)>>) => res.val = << <<"C", "C", "C">> >>

\* a range with lo >= 1 and a larger hi over an operand with several
\* expansions has been expanded
C4_Witness ==
    /\ last.kind = "range" /\ Returned
    /\ last.form = "lohi" /\ last.lo = 3 /\ last.hi = 5
    /\ Len(parts[1]) >= 2 /\ parts[1][1] # <<>>
    /\ Len(res.val) = 1

\* C5: quantifier boundary laws. expand(p?) and expand(p*) contain the empty
\* sequence and every element of expand(p) and nothing else; expand(p+)
\* equals expand(p), so it has an empty member only if expand(p) has one.
C5_QuantifierLaws ==
    /\ (last.kind \in {"?", "*"} /\ Returned) =>
          ToSet(res.val) = ToSet(parts[1]) \cup {<<>>}
    /\ (last.kind = "+" /\ Returned) =>
          /\ res.val = parts[1]
          /\ (<<>> \in ToSet(res.val) => <<>> \in ToSet(parts[1]))

\* p? has been expanded over an operand that cannot match the empty sequence
C5_Witness ==
    /\ last.kind = "?" /\ Returned
    /\ <<>> \notin ToSet(parts[1])
    /\ Len(parts[1]) >= 2

\* the arguments of the PERMUTE each expand to exactly one sequence of length 1
SingleSymbolArgs == \A i \in 1..Len(parts) : Len(parts[i]) = 1 /\ Len(parts[i][1]) = 1
ArgSymbols == [i \in 1..Len(parts) |-> parts[i][1][1]]

IsPermutationOf(seq, syms) ==
    /\ Len(seq) = Len(syms)
    /\ \A i \in 1..Len(syms) : Count(seq, syms[i]) = Count(syms, syms[i])

FactorialManyPermutations ==
    /\ Len(res.val) = Factorial(Len(parts))
    /\ NoDup(res.val)
    /\ \A i \in 1..Len(res.val) : IsPermutationOf(res.val[i], ArgSymbols)

\* C6 as claimed: for PERMUTE(x1..xk) whose arguments each expand to exactly
\* one sequence of length 1, expand returns exactly k! sequences, each a
\* distinct permutation of the k symbols, whatever the symbol names are.
C6_PermuteCardinality_AnyNames ==
    (last.kind = "permute" /\ Returned /\ SingleSymbolArgs) => FactorialManyPermutations

\* C6 amended: the same for k >= 1 arguments whose k symbols are pairwise
\* different.
C6_PermuteCardinality ==
    (last.kind = "permute" /\ Returned /\ SingleSymbolArgs /\ NoDup(ArgSymbols))
        => FactorialManyPermutations

\* a PERMUTE of three different symbols has been expanded to 3! sequences
C6_Witness ==
    /\ last.kind = "permute" /\ Returned /\ SingleSymbolArgs /\ NoDup(ArgSymbols)
    /\ Len(parts) = 3
    /\ Len(res.val) = 6

\* all x1 ++ x2, x1 from left and x2 from right, the left choice varying slowest
Pairs(left, right) ==
    [n \in 1..(Len(left) * Len(right)) |->
        left[((n - 1) \div Len(right)) + 1] \o right[((n - 1) % Len(right)) + 1]]

CatalogueConcat ==
    Concatenation(Grouped(Concatenation(Quantified(S("A"), "*"), Quantified(S("B"), "+"))),
                  Quantified(S("D"), "*"))

\* C7: the expansion of a concatenation is the list of all x1 ++ ... ++ xk,
\* xj from the expansion of item j, leftmost item varying slowest, each
\* item's choices in their own order, later duplicates removed. For
\* (A* B+) D* the result contains [B] and [A,B,D] and not [A,B,A,B].
C7_Concatenation ==
    /\ (last.kind = "concat" /\ Returned) =>
          IsFirstOccurrences(res.val, Pairs(parts[1], parts[2]))
    /\ node = CatalogueConcat =>
          /\ <<"B">> \in ToSet(res.val)
          /\ <<"A", "B", "D">> \in ToSet(res.val)
          /\ <<"A", "B", "A", "B">> \notin ToSet(res.val)

\* (A* B+) D* has been expanded
C7_Witness ==
    /\ node = CatalogueConcat /\ last.kind = "concat" /\ Returned
    /\ Len(parts[1]) = 2 /\ Len(parts[2]) = 2
    /\ res.val = << <<"B">>, <<"B", "D">>, <<"A", "B">>, <<"A", "B", "D">> >>

(* ---------------------------------------------------------------------- *)
(* Properties of the range builders                                       *)
(* ---------------------------------------------------------------------- *)
\* the ends of the anchor handed to the range builder and of the special pattern
AnchorFirst == rw.symbol_seq[1]
AnchorLast == rw.symbol_seq[Len(rw.symbol_seq)]
PFirst == res.val[1][1]
PLast == res.val[1][Len(res.val[1])]

\* the synthesizer returned and the continuous range builder was called on a
\* non-empty anchor
BasicRan == rw.basic.synthesized /\ rw.symbol_seq # <<>>

MissingWindowBasic == "ValueError: Cannot compute time range"
MissingWindowBucket == "ValueError: missing Pattern Window Condition"

Minus(sym, col, w) == Attr(sym, col) \o <<" ", "-", " ">> \o w
Plus(sym, col, w) == Attr(sym, col) \o <<" ", "+", " ">> \o w

\* C8: a missing window is fatal. Continuous strategy: when the anchor's first
\* symbol differs from the pattern's first or its last from the pattern's
\* last and no window was extracted, building the range fails with the
\* missing-window error and no range is produced; the endpoint pair never has
\* exactly one endpoint defined. Discretized strategy: with no window
\* extracted it fails with its missing-window error in every case, and never
\* produces a range without a window.
C8_MissingWindowFatal ==
    /\ (BasicRan /\ ~rw.basic.window.some /\ (AnchorFirst # PFirst \/ AnchorLast # PLast)) =>
          /\ rw.basic.exc = MissingWindowBasic
          /\ ~rw.basic.range
          /\ rw.basic.t_s = None /\ rw.basic.t_e = None
    /\ rw.basic.t_s.some <=> rw.basic.t_e.some
    /\ (rw.bucket.synthesized /\ ~rw.bucket.window.some) =>
          /\ rw.bucket.exc = MissingWindowBucket
          /\ ~rw.bucket.range
          /\ rw.bucket.bk_s = None /\ rw.bucket.bk_e = None
    /\ (rw.bucket.exc # "pending" /\ ~rw.bucket.window.some) => ~rw.bucket.range

\* anchor [B] of the pattern [A,B,C] with no window in the DEFINE store: both
\* strategies have reported the missing window
C8_Witness ==
    /\ res.val = << <<"A", "B", "C">> >> /\ rw.symbol_seq = <<"B">>
    /\ rw.basic.synthesized /\ ~rw.basic.window.some
    /\ rw.basic.exc = MissingWindowBasic
    /\ rw.bucket.synthesized /\ rw.bucket.exc = MissingWindowBucket

\* C9: the continuous range table. (first.attr, last.attr) when first = pFirst
\* and last = pLast, with or without a window; otherwise, with window W known,
\* (last.attr - W, last.attr) if last = pLast, (first.attr, first.attr + W) if
\* first = pFirst, (last.attr - W, first.attr + W) if neither matches.
C9_ContinuousRangeTable ==
    BasicRan =>
        LET W == rw.basic.window.v
        IN  IF AnchorFirst = PFirst /\ AnchorLast = PLast
            THEN /\ rw.basic.t_s = Some(Attr(AnchorFirst, OrderBy))
                 /\ rw.basic.t_e = Some(Attr(AnchorLast, OrderBy))
            ELSE rw.basic.window.some =>
                 IF AnchorLast = PLast
                 THEN /\ rw.basic.t_s = Some(Minus(AnchorLast, OrderBy, W))
                      /\ rw.basic.t_e = Some(Attr(AnchorLast, OrderBy))
                 ELSE IF AnchorFirst = PFirst
                 THEN /\ rw.basic.t_s = Some(Attr(AnchorFirst, OrderBy))
                      /\ rw.basic.t_e = Some(Plus(AnchorFirst, OrderBy, W))
                 ELSE /\ rw.basic.t_s = Some(Minus(AnchorLast, OrderBy, W))
                      /\ rw.basic.t_e = Some(Plus(AnchorFirst, OrderBy, W))

\* a window is known and the anchor touches neither end of the pattern
C9_Witness ==
    /\ BasicRan /\ rw.basic.window.some /\ rw.basic.range
    /\ AnchorFirst # PFirst /\ AnchorLast # PLast
    /\ AnchorFirst # AnchorLast

\* the discretized counterpart of a continuous endpoint:
\* x.ts -> x.bk,  x.ts - W -> x.bk - 1,  x.ts + W -> x.bk + 1
Discretized(t) ==
    IF Len(t) = 3 THEN Attr(t[1], "bk") ELSE Attr(t[1], "bk") \o <<" ", t[5], " ", "1">>

\* C10: the discretized range table. (first.bk, last.bk) when both ends of the
\* anchor equal the pattern's, (last.bk - 1, last.bk) when only the last
\* does, (first.bk, first.bk + 1) when only the first does, (last.bk - 1,
\* first.bk + 1) when neither does; for every (anchor, pattern) pair it is
\* the case the continuous strategy selects when a window is known.
C10_DiscretizedRangeTable ==
    /\ rw.bucket.range =>
          IF AnchorFirst = PFirst /\ AnchorLast = PLast
              THEN /\ rw.bucket.bk_s = Some(Attr(AnchorFirst, "bk"))
                   /\ rw.bucket.bk_e = Some(Attr(AnchorLast, "bk"))
              ELSE IF AnchorLast = PLast
              THEN /\ rw.bucket.bk_s = Some(Minus(AnchorLast, "bk", <<"1">>))
                   /\ rw.bucket.bk_e = Some(Attr(AnchorLast, "bk"))
              ELSE IF AnchorFirst = PFirst
              THEN /\ rw.bucket.bk_s = Some(Attr(AnchorFirst, "bk"))
                   /\ rw.bucket.bk_e = Some(Plus(AnchorFirst, "bk", <<"1">>))
              ELSE /\ rw.bucket.bk_s = Some(Minus(AnchorLast, "bk", <<"1">>))
                   /\ rw.bucket.bk_e = Some(Plus(AnchorFirst, "bk", <<"1">>))
    /\ (rw.bucket.range /\ rw.basic.exc # "pending") =>
          /\ rw.basic.range
          /\ rw.bucket.bk_s.v = Discretized(rw.basic.t_s.v)
          /\ rw.bucket.bk_e.v = Discretized(rw.basic.t_e.v)

\* both strategies have built a range for an anchor that touches only the
\* last end of the pattern
C10_Witness ==
    /\ rw.bucket.range /\ rw.basic.range
    /\ AnchorFirst # PFirst /\ AnchorLast = PLast
    /\ AnchorFirst # AnchorLast

(* ---------------------------------------------------------------------- *)
(* Properties of the condition synthesizer                                *)
(* ---------------------------------------------------------------------- *)
\* the special pattern and the fragments of the DEFINE store
Pattern == res.val[1]
StoreFragments ==
    UNION {{rw.define[i][2][j] : j \in 1..Len(rw.define[i][2])} : i \in 1..Len(rw.define)}

\* a fragment '<last>.<orderBy> - <first>.<orderBy> <= <window>'
WindowShape(last_sym, first_sym) ==
    <<last_sym, ".", OrderBy, " ", "-", " ", first_sym, ".", OrderBy, " ", "<=", " ">>
IsWindowFragment(f, last_sym, first_sym) ==
    Len(f) > 12 /\ SubSeq(f, 1, 12) = WindowShape(last_sym, first_sym)
BoundOf(f) == SubSeq(f, 13, Len(f))

\* the last condition of a synthesized list
LastCond(conds) == conds[Len(conds)]

\* the returned list ends with a fragment of the store, unchanged, whose bound
\* is the returned window
EndsWithStoreWindow(out) ==
    /\ out.conds # <<>>
    /\ LastCond(out.conds) \in StoreFragments
    /\ IsWindowFragment(LastCond(out.conds), PLast, PFirst)
    /\ out.window.v = BoundOf(LastCond(out.conds))

\* C11: window propagation is a no-op on the full pattern. When the anchor
\* sequence equals the special pattern and a window fragment was extracted,
\* the fragment appended to the condition list is identical to the extracted
\* fragment of the DEFINE store and the returned window is its bound.
C11_PropagationNoOp ==
    /\ (rw.basic.synthesized /\ rw.basic.window.some /\ rw.symbol_seq = Pattern) =>
          EndsWithStoreWindow(rw.basic)
    /\ (rw.bucket.synthesized /\ rw.bucket.window.some /\ rw.symbol_seq = Pattern) =>
          EndsWithStoreWindow(rw.bucket)

\* fragment B.ts - A.ts <= INTERVAL '7' DAY, pattern [A,B], anchor [A,B]
C11_Witness ==
    /\ Pattern = <<"A", "B">> /\ rw.symbol_seq = <<"A", "B">>
    /\ rw.basic.synthesized
    /\ rw.basic.window = Some(<<"INTERVAL", " ", "'", "7", "'", " ", "DAY">>)
    /\ LastCond(rw.basic.conds) = WindowBA

\* the anchor in the order of the special pattern: a rearrangement of the
\* caller's anchor by first index in the pattern when the pattern has no
\* repeated symbol, the caller's anchor otherwise
NoRepeat(p) == \A i, j \in 1..Len(p) : p[i] = p[j] => i = j
FirstIndexIn(p, x) == CHOOSE i \in 1..Len(p) : p[i] = x /\ \A j \in 1..(i - 1) : p[j] # x
SameSymbols(a, b) == Len(a) = Len(b) /\ \A x \in RwSymbols : Count(a, x) = Count(b, x)
InPatternOrder(a) ==
    \A i, j \in 1..Len(a) : i < j => FirstIndexIn(Pattern, a[i]) <= FirstIndexIn(Pattern, a[j])
NormalizedAnchor ==
    IF NoRepeat(Pattern)
    THEN CHOOSE a \in [1..Len(rw.symbol_seq) -> RwSymbols] :
            SameSymbols(a, rw.symbol_seq) /\ InPatternOrder(a)
    ELSE rw.symbol_seq

OrderingConstraint(s1, s2) == <<s1, ".", OrderBy, " ", "<=", " ", s2, ".", OrderBy>>
IsOrderingConstraint(c) == Len(c) = 9 /\ c = OrderingConstraint(c[1], c[7])
NumOrdering(conds) == Cardinality({i \in 1..Len(conds) : IsOrderingConstraint(conds[i])})

\* every consecutive pair of the normalized anchor has its constraint among
\* the conditions, n-1 constraints in all
EmitsOrdering(out) ==
    /\ \A i \in 1..(Len(rw.symbol_seq) - 1) :
          \E k \in 1..Len(out.conds) :
             out.conds[k] = OrderingConstraint(NormalizedAnchor[i], NormalizedAnchor[i + 1])
    /\ rw.symbol_seq # <<>> => NumOrdering(out.conds) = Len(rw.symbol_seq) - 1

\* C12 (as claimed): every call of the synthesizer, for the continuous and the
\* discretized rewrite alike, emits 's1.<orderBy> <= s2.<orderBy>' for each
\* consecutive pair of the normalized anchor: n-1 ordering constraints.
C12_OrderingBothRewrites ==
    /\ rw.basic.synthesized => EmitsOrdering(rw.basic)
    /\ rw.bucket.synthesized => EmitsOrdering(rw.bucket)

\* C12 (amended): a call of the synthesizer for the continuous rewrite emits,
\* as its first n-1 conditions, 's1.<orderBy> <= s2.<orderBy>' for the
\* consecutive pairs of the normalized anchor in order, and no other ordering
\* constraint; a call for the discretized rewrite emits no ordering constraint.
C12_OrderingContinuousOnly ==
    /\ rw.basic.synthesized =>
          /\ EmitsOrdering(rw.basic)
          /\ \A i \in 1..(Len(rw.symbol_seq) - 1) :
                rw.basic.conds[i] = OrderingConstraint(NormalizedAnchor[i], NormalizedAnchor[i + 1])
          /\ rw.symbol_seq = <<>> => NumOrdering(rw.basic.conds) = 0
    /\ rw.bucket.synthesized => NumOrdering(rw.bucket.conds) = 0

\* both rewrites have synthesized conditions for a two-symbol anchor that the
\* caller gave out of pattern order
C12_Witness ==
    /\ rw.basic.synthesized /\ rw.bucket.synthesized
    /\ Len(rw.symbol_seq) = 2 /\ NormalizedAnchor # rw.symbol_seq
    /\ NumOrdering(rw.basic.conds) = 1

\* the predicates the synthesizer keeps for one symbol of the anchor
AnchorSet == {rw.symbol_seq[i] : i \in 1..Len(rw.symbol_seq)}
EntriesOf(sym) == {i \in 1..Len(define_dict(rw.define)) : define_dict(rw.define)[i][1] = sym}
GroupOf(sym) ==
    IF EntriesOf(sym) = {} THEN <<>>
    ELSE new_cond_list(sym, define_dict(rw.define)[CHOOSE i \in EntriesOf(sym) : TRUE][2],
                       PFirst, PLast, OrderBy, AnchorSet)

\* the groups of the symbols of syms, one after the other
RECURSIVE GroupsInOrder(_)
GroupsInOrder(syms) ==
    IF syms = <<>> THEN <<>> ELSE GroupOf(syms[1]) \o GroupsInOrder(Tail(syms))

\* number of conditions in front of / behind the per-symbol predicates
NumLeading(out, ordered) == IF ordered /\ rw.symbol_seq # <<>> THEN Len(rw.symbol_seq) - 1 ELSE 0
NumTrailing(out) == IF out.window.some THEN 1 ELSE 0
Predicates(out, ordered) ==
    SubSeq(out.conds, NumLeading(out, ordered) + 1, Len(out.conds) - NumTrailing(out))

\* the anchor handed to the rewrite is a subsequence of the special pattern
AnchorOfPattern == IsSubsequence(rw.symbol_seq, Pattern)

\* C13: order of the synthesized condition list. For an anchor that is a
\* subsequence of the special pattern the ordering constraints come first, then the filtered predicates grouped per symbol in the order
\* the symbols appear in the anchor sequence, whatever the order of the
\* entries of the DEFINE store, then the propagated window fragment if present.
C13_ConditionOrder ==
    /\ (rw.basic.synthesized /\ AnchorOfPattern) =>
          /\ \A i \in 1..NumLeading(rw.basic, TRUE) : IsOrderingConstraint(rw.basic.conds[i])
          /\ Predicates(rw.basic, TRUE) = GroupsInOrder(dedupe(NormalizedAnchor))
    /\ (rw.bucket.synthesized /\ AnchorOfPattern) =>
          Predicates(rw.bucket, FALSE) = GroupsInOrder(dedupe(NormalizedAnchor))

\* the symbols a fragment references: the identifiers in front of a "."
References(f) ==
    {f[i] : i \in {k \in 1..(Len(f) - 1) : f[k + 1] = "." /\ IsWord(f[k]) /\ ~IsNumber(f[k])}}

\* the fragment calls a navigation function
NavigationFunctions == {"PREV", "NEXT", "FIRST", "LAST", "LAG", "LEAD"}
CallsNavigation(f) ==
    \E i \in 1..(Len(f) - 1) : f[i] \in NavigationFunctions /\ f[i + 1] = "("

\* the fragments of the DEFINE entry i that the claim keeps for its symbol
KeptFragments(i) ==
    {j \in 1..Len(define_dict(rw.define)[i][2]) :
        LET f == define_dict(rw.define)[i][2][j]
        IN  /\ ~IsWindowFragment(f, PLast, PFirst)
            /\ References(f) \subseteq AnchorSet
            /\ ~CallsNavigation(f)}

RECURSIVE SumOver(_, _)
SumOver(n, i) == IF i = 0 THEN 0 ELSE n[i] + SumOver(n, i - 1)

\* number of fragments kept over the DEFINE entries of the anchor's symbols
NumKept ==
    SumOver([i \in 1..Len(define_dict(rw.define)) |->
                IF define_dict(rw.define)[i][1] \in AnchorSet
                THEN Cardinality(KeptFragments(i)) ELSE 0],
            Len(define_dict(rw.define)))

\* C14: per-symbol predicate filtering. For every anchor symbol S the
\* predicates emitted for S are exactly the non-window fragments of S that
\* reference no symbol outside the anchor and call no navigation function, and
\* no fragment of a symbol outside the anchor is emitted: the synthesized list
\* holds one predicate for each such fragment.
C14_PredicateFiltering ==
    /\ (rw.basic.synthesized /\ AnchorOfPattern) => Len(Predicates(rw.basic, TRUE)) = NumKept
    /\ (rw.bucket.synthesized /\ AnchorOfPattern) => Len(Predicates(rw.bucket, FALSE)) = NumKept

\* position i of fragment f holds a bare column reference: an identifier
\* that is not prefixed with a symbol, is no symbol prefix itself, no SQL
\* keyword, no numeric literal, and is not directly followed by "("
IsBareColumn(f, i) ==
    /\ IsWord(f[i]) /\ ~IsNumber(f[i])
    /\ upper(f[i]) \notin sql_keywords
    /\ ~(i > 1 /\ f[i - 1] = ".")
    /\ ~(i < Len(f) /\ f[i + 1] \in {".", "("})

\* fragment f with every bare column reference rewritten to S.<column>
RECURSIVE QualifyFrom(_, _, _)
QualifyFrom(f, i, sym) ==
    IF i > Len(f) THEN <<>>
    ELSE (IF IsBareColumn(f, i) THEN <<sym, ".", f[i]>> ELSE <<f[i]>>) \o QualifyFrom(f, i + 1, sym)
Qualify(f, sym) == QualifyFrom(f, 1, sym)

\* the fragments of the anchor's symbols, qualified with their symbol
QualifiedFragments ==
    UNION {{Qualify(define_dict(rw.define)[i][2][j], define_dict(rw.define)[i][1]) :
               j \in 1..Len(define_dict(rw.define)[i][2])} :
           i \in {k \in 1..Len(define_dict(rw.define)) : define_dict(rw.define)[k][1] \in AnchorSet}}

\* C15: column qualification. Every predicate emitted for an anchor symbol S
\* is a fragment of S in which every bare column reference is rewritten to
\* S.<column> and every other token (references already qualified with S or
\* another symbol, keywords, literals, function names) is unchanged; also for
\* fragments that mix qualified and bare references and for fragments
\* qualified only with another symbol.
C15_ColumnQualification ==
    /\ (rw.basic.synthesized /\ AnchorOfPattern) =>
          \A k \in 1..Len(Predicates(rw.basic, TRUE)) :
             Predicates(rw.basic, TRUE)[k] \in QualifiedFragments
    /\ (rw.bucket.synthesized /\ AnchorOfPattern) =>
          \A k \in 1..Len(Predicates(rw.bucket, FALSE)) :
             Predicates(rw.bucket, FALSE)[k] \in QualifiedFragments

\* the anchor names a symbol that is not in the special pattern, or one that
\* has no entry in the DEFINE store
PatternSet == {Pattern[i] : i \in 1..Len(Pattern)}
DefinedSet == {rw.define[i][1] : i \in 1..Len(rw.define)}
UndefinedAnchorSymbol == \E x \in AnchorSet : x \notin PatternSet \/ x \notin DefinedSet

\* the synthesizer was called and raised: no condition list was returned
SynthesizerFailed(out) ==
    /\ ~out.synthesized /\ out.conds = <<>>
    /\ out.exc \in {"ValueError: not in list", "IndexError"}

\* C16: if the anchor sequence contains a symbol that does not occur in the
\* special pattern, or a symbol without an entry in the DEFINE store, the
\* synthesizer fails with an error and returns no condition list; for special
\* patterns with and without repeated symbols.
C16_UndefinedAnchorSymbol ==
    /\ (rw.basic.exc # "pending" /\ UndefinedAnchorSymbol) => SynthesizerFailed(rw.basic)
    /\ (rw.bucket.exc \notin {"pending", "UnboundLocalError"} /\ UndefinedAnchorSymbol) =>
          SynthesizerFailed(rw.bucket)

\* a condition of the shape '<x>.<orderBy> - <y>.<orderBy> <= <window>'
IsWindowLike(c) == Len(c) > 12 /\ IsWindowFragment(c, c[1], c[7])

\* the fragments of the store that have the window shape of the pattern:
\* (entry, position) pairs
ShapedFragments ==
    {e \in (1..Len(define_dict(rw.define))) \X (1..3) :
        /\ e[2] <= Len(define_dict(rw.define)[e[1]][2])
        /\ IsWindowFragment(define_dict(rw.define)[e[1]][2][e[2]], PLast, PFirst)}

\* those of them that the per-symbol filter would emit if they were left in
\* the list of their symbol
EmittableShaped ==
    {e \in ShapedFragments :
        /\ define_dict(rw.define)[e[1]][1] \in AnchorSet
        /\ References(define_dict(rw.define)[e[1]][2][e[2]]) \subseteq AnchorSet}

\* window-shaped fragments still present among the per-symbol predicates
NumShapedLeft(preds) == Cardinality({k \in 1..Len(preds) : IsWindowLike(preds[k])})

\* at most one fragment was taken out as the window; it is the last
\* condition and its bound is the returned window
OneWindow(out, preds) ==
    IF ShapedFragments = {}
    THEN ~out.window.some /\ \A k \in 1..Len(out.conds) : out.conds[k] \notin StoreFragments \/ ~IsWindowFragment(out.conds[k], PLast, PFirst)
    ELSE /\ out.window.some
         /\ IsWindowLike(LastCond(out.conds))
         /\ out.window.v = BoundOf(LastCond(out.conds))
         /\ Cardinality(EmittableShaped) - NumShapedLeft(preds) <= 1

\* C17: at most one window fragment is recognized per synthesis. Over all
\* fragments of the DEFINE store at most one fragment of the shape
\* '<pLast>.<orderBy> - <pFirst>.<orderBy> <= <window>' is removed from the
\* per-symbol fragment lists and treated as the window; the returned window is
\* its bound and that fragment, rewritten, is the last condition; if no
\* fragment has the shape the window is none and no window fragment is
\* appended.
C17_AtMostOneWindow ==
    /\ (rw.basic.synthesized /\ AnchorOfPattern /\ rw.symbol_seq # <<>>) =>
          OneWindow(rw.basic, Predicates(rw.basic, TRUE))
    /\ (rw.bucket.synthesized /\ AnchorOfPattern /\ rw.symbol_seq # <<>>) =>
          OneWindow(rw.bucket, Predicates(rw.bucket, FALSE))

\* the window fragment carried to the ends of the anchor
PropagatedWindow(out) == WindowShape(AnchorLast, AnchorFirst) \o out.window.v

\* C18: window propagation result. For every special pattern (with or without
\* repeated symbols, also with equal first and last symbol) that has a window
\* fragment '<pLast>.<o> - <pFirst>.<o> <= W' and every anchor that is a
\* subsequence of the pattern, the fragment appended to the conditions is
\* '<anchor[-1]>.<o> - <anchor[0]>.<o> <= W'.
C18_PropagatedWindow ==
    /\ (rw.basic.synthesized /\ rw.basic.window.some /\ AnchorOfPattern /\ rw.symbol_seq # <<>>) =>
          LastCond(rw.basic.conds) = PropagatedWindow(rw.basic)
    /\ (rw.bucket.synthesized /\ rw.bucket.window.some /\ AnchorOfPattern /\ rw.symbol_seq # <<>>) =>
          LastCond(rw.bucket.conds) = PropagatedWindow(rw.bucket)

\* the first conditions are the ordering constraints of the anchor a, in order
LeadsWithOrderOf(out, a) ==
    /\ Len(out.conds) >= Len(a) - 1
    /\ \A i \in 1..(Len(a) - 1) : out.conds[i] = OrderingConstraint(a[i], a[i + 1])

\* C19: anchor-order independence. When the special pattern has no repeated
\* symbol, the outcome of the whole continuous rewrite step (conditions,
\* extracted window, t_s and t_e or the missing-window outcome) for the
\* caller's anchor is the outcome for the same symbols in pattern order, so it
\* is the same for any two orderings of the anchor; when the pattern has a
\* repeated symbol the conditions follow the caller's order verbatim.
C19_AnchorOrderIndependence ==
    /\ (rw.basic.exc # "pending" /\ AnchorSet \subseteq PatternSet /\ NoRepeat(Pattern)) =>
          rw.basic = rewrite_basic(Pattern, rw.define, OrderBy, NormalizedAnchor)
    /\ (rw.basic.synthesized /\ ~NoRepeat(Pattern)) =>
          LeadsWithOrderOf(rw.basic, rw.symbol_seq)

(* ---------------------------------------------------------------------- *)
(* Operator tokens in the expansion                                       *)
(* ---------------------------------------------------------------------- *)
\* every name of every special pattern is a pattern variable
OnlyPatternVariables ==
    \A i \in 1..Len(res.val) : \A j \in 1..Len(res.val[i]) : res.val[i][j] \in Symbols

\* C20: no operator token becomes a symbol. A two-element node whose operator
\* is not '*', '+', '?' or a range expands, without error, to the expansion of
\* its primary operand alone, and bare operator and anchor tokens ('|', '?',
\* '^', '$', '*', '+') contribute the empty sequence, so every name in every
\* special pattern is a pattern variable of the input.
C20_NoOperatorSymbol ==
    /\ last.kind = "reluctant" => (res.exc = "none" /\ res.val = parts[1])
    /\ res.exc = "none" => OnlyPatternVariables

(* ---------------------------------------------------------------------- *)
(* Soundness of the continuous range                                      *)
(* ---------------------------------------------------------------------- *)
\* C21: soundness of the continuous range over bounded integer order keys.
\* For any special pattern (repeated symbols allowed), non-decreasing integer
\* keys on its positions that span at most the window, and any anchor that is
\* a subsequence of the pattern, either the range is a missing-window failure
\* or the ranges of the bindings that satisfy the ordering constraints contain,
\* taken together, the key of every position of the match: the prefilter
\* keeps every row of the match.
C21_ContinuousRangeSound ==
    rw.stage = "filtered" => rw.kept = 1..Len(rw.keys)

====
